---- MODULE Spec2Model ----
(***************************************************************************)
(* A model of plogging: the bracket-template converter                     *)
(* (FormatStringConverter), the template validator, LevelContainer,        *)
(* Palette and the Formatter that selects and renders templates.           *)
(*                                                                         *)
(* A Python str is a sequence of symbols.  A symbol is one character       *)
(* ("{", "}", "!", ":", "_", STX, ETX, "a", "[", "]") or an atomic word    *)
(* ("name", "enter", ">5", ...) standing for the characters of that word.  *)
(* A field name is the sequence of symbols between "{" and the first "!"   *)
(* or ":" or "}", so name+chr(2) is Append(name, STX).                     *)
(***************************************************************************)
EXTENDS Integers, Sequences, FiniteSets, TLC

VARIABLES
    phase,                  \* "new" | "ready" | "failed": Formatter.__init__ not run / returned / raised
    fmts,                   \* the LevelContainer passed as fmts (Formatter.fmts), rewritten in place
    backup_fmts,            \* Formatter.backup_fmts (the caller's container or a new one)
    defaults,               \* Formatter.defaults
    palettes,               \* Formatter.palettes: field word -> Palette.colors
    force_ansi,             \* Formatter.force_ansi
    stream_supports_color,  \* Formatter.stream_supports_color: "None" | TRUE | FALSE
    arg_fmts,               \* the templates the caller passed as fmts, before __init__ touched them
    arg_backup,             \* the backup container the caller passed, or NoContainer
    record,                 \* the LogRecord at hand
    conv_values,            \* FormatStringConverter.values
    conv_awaiting,          \* FormatStringConverter.awaiting_exit: index into values, 0 for None
    conv_in,                \* argument of the last converter call
    last                    \* outcome of the last operation

vars == <<phase, fmts, backup_fmts, defaults, palettes, force_ansi, stream_supports_color,
          arg_fmts, arg_backup, record, conv_values, conv_awaiting, conv_in, last>>

fmtr_vars == <<phase, fmts, backup_fmts, defaults, palettes, force_ansi, stream_supports_color,
               arg_fmts, arg_backup, record>>

conv_vars == <<conv_values, conv_awaiting, conv_in>>

----------------------------------------------------------------------------
(* Symbols                                                                 *)

LB == "{"
RB == "}"
BANG == "!"
COLON == ":"
US == "_"
STX == "STX"
ETX == "ETX"

\* Optional values: Python's None against a str
None == [some |-> FALSE, v |-> <<>>]
Some(s) == [some |-> TRUE, v |-> s]

\* Python truthiness of an optional str: not None and not empty
Truthy(o) == o.some /\ o.v # <<>>

\* Python's `a or b` on optional strs
Or(a, b) == IF Truthy(a) THEN a ELSE b

RECURSIVE Concat(_)
Concat(ss) == IF ss = <<>> THEN <<>> ELSE Head(ss) \o Concat(Tail(ss))

----------------------------------------------------------------------------
(* string.Formatter().parse: the tuples (literal_text, field_name,         *)
(* format_spec, conversion) of a template, or a ValueError                 *)

\* parse is a generator: toks are the tuples it yields before it ends (ok) or raises
ParseError == [ok |-> FALSE, toks |-> <<>>]
ParseOk(toks) == [ok |-> TRUE, toks |-> toks]

\* a tuple without markup: field_name, format_spec and conversion are None
LitTok(lit) == [literal_text |-> lit, field_name |-> None, format_spec |-> None,
                conversion |-> None]

\* index of the first brace at or after i, Len(s)+1 when there is none
RECURSIVE LitEnd(_, _)
LitEnd(s, i) ==
    IF i > Len(s) THEN i
    ELSE IF s[i] \in {LB, RB} THEN i
    ELSE LitEnd(s, i + 1)

\* index of the "}" closing a field whose body starts at k, 0 when the string ends first
RECURSIVE FieldEnd(_, _, _)
FieldEnd(s, k, count) ==
    IF k > Len(s) THEN 0
    ELSE IF s[k] = LB THEN FieldEnd(s, k + 1, count + 1)
    ELSE IF s[k] = RB THEN (IF count = 1 THEN k ELSE FieldEnd(s, k + 1, count - 1))
    ELSE FieldEnd(s, k + 1, count)

\* index of the first "!" or ":" of a field body, Len(body)+1 when there is none
RECURSIVE NameEnd(_, _)
NameEnd(body, i) ==
    IF i > Len(body) THEN i
    ELSE IF body[i] \in {BANG, COLON} THEN i
    ELSE NameEnd(body, i + 1)

\* the body of a field (between its braces): name, conversion, format spec
ParseField(body) ==
    LET p == NameEnd(body, 1)
        name == SubSeq(body, 1, p - 1)
        n == Len(body)
    IN  IF \E k \in 1..(p - 1) : body[k] = LB THEN [ok |-> FALSE]
        ELSE IF p > n THEN
            [ok |-> TRUE, field_name |-> Some(name), format_spec |-> Some(<<>>),
             conversion |-> None]
        ELSE IF body[p] = COLON THEN
            [ok |-> TRUE, field_name |-> Some(name), format_spec |-> Some(SubSeq(body, p + 1, n)),
             conversion |-> None]
        ELSE IF p + 1 > n THEN [ok |-> FALSE]
        ELSE IF p + 1 = n THEN
            [ok |-> TRUE, field_name |-> Some(name), format_spec |-> Some(<<>>),
             conversion |-> Some(<<body[p + 1]>>)]
        ELSE IF body[p + 2] # COLON THEN [ok |-> FALSE]
        ELSE
            [ok |-> TRUE, field_name |-> Some(name), format_spec |-> Some(SubSeq(body, p + 3, n)),
             conversion |-> Some(<<body[p + 1]>>)]

RECURSIVE ParseFrom(_, _)
ParseFrom(s, i) ==
    IF i > Len(s) THEN ParseOk(<<>>)
    ELSE
      LET j == LitEnd(s, i) IN
      IF j > Len(s) THEN ParseOk(<<LitTok(SubSeq(s, i, Len(s)))>>)
      ELSE IF s[j] = RB /\ (j = Len(s) \/ s[j + 1] # RB) THEN ParseError
      ELSE IF j = Len(s) THEN ParseError
      ELSE IF s[j + 1] = s[j] THEN
          \* "{{" or "}}": the literal ends with one brace and no markup follows
          LET rest == ParseFrom(s, j + 2) IN
          [ok |-> rest.ok, toks |-> <<LitTok(SubSeq(s, i, j))>> \o rest.toks]
      ELSE
          LET e == FieldEnd(s, j + 1, 1) IN
          IF e = 0 THEN ParseError
          ELSE
            LET f == ParseField(SubSeq(s, j + 1, e - 1)) IN
            IF ~f.ok THEN ParseError
            ELSE
              LET rest == ParseFrom(s, e + 1)
                  tok == [literal_text |-> SubSeq(s, i, j - 1), field_name |-> f.field_name,
                          format_spec |-> f.format_spec, conversion |-> f.conversion]
              IN  [ok |-> rest.ok, toks |-> <<tok>> \o rest.toks]

Parse(s) == ParseFrom(s, 1)

----------------------------------------------------------------------------
(* FormatContainer and FormatStringConverter                               *)

\* an entry of FormatStringConverter.values: a str, or a FormatContainer
StrItem(s) == [fc |-> FALSE, s |-> s, conversion |-> <<>>, format_spec |-> <<>>,
               field_name |-> None, field_name_append |-> <<>>]

FormatContainer(conversion, format_spec, field_name_append) ==
    [fc |-> TRUE, s |-> <<>>, conversion |-> conversion, format_spec |-> format_spec,
     field_name |-> None, field_name_append |-> field_name_append]

\* str() of an optional str inside an f-string: None prints as the word None
PyStr(o) == IF o.some THEN o.v ELSE <<"None">>

FormatContainer__str__(c) ==
    <<LB>> \o PyStr(c.field_name) \o c.field_name_append \o c.conversion \o c.format_spec
           \o <<RB>>

_conversion(conversion) == IF Truthy(conversion) THEN <<BANG>> \o conversion.v ELSE <<>>

_format_spec(format_spec) == IF Truthy(format_spec) THEN <<COLON>> \o format_spec.v ELSE <<>>

_format_statement(field_name, conversion, format_spec) ==
    <<LB>> \o (IF Truthy(field_name) THEN field_name.v ELSE <<>>) \o conversion \o format_spec
           \o <<RB>>

\* the converter's state while a call runs; raised is set when the call raises ValueError
ConvState(values, awaiting_exit) ==
    [values |-> values, awaiting_exit |-> awaiting_exit, raised |-> FALSE]

Raise(st) == [st EXCEPT !.raised = TRUE]

_add_flag(st, field_name, conversion, format_spec) ==
    [st EXCEPT !.values = Append(@, StrItem(_format_statement(field_name, conversion,
                                                              format_spec)))]

_enter_NamedNone(st, conversion, format_spec) ==
    IF st.awaiting_exit # 0 THEN Raise(st)
    ELSE [st EXCEPT !.values = Append(@, StrItem(<<LB, "None", STX>> \o conversion
                                                   \o format_spec \o <<RB>>)),
                    !.awaiting_exit = Len(st.values) + 1]

_enter(st, conversion, format_spec) ==
    IF st.awaiting_exit # 0 THEN Raise(st)
    ELSE [st EXCEPT !.values = Append(@, FormatContainer(conversion, format_spec, <<STX>>)),
                    !.awaiting_exit = Len(st.values) + 1]

_exit_NoEmptyCheck(st, conversion, format_spec) ==
    IF st.awaiting_exit = 0 THEN Raise(st)
    ELSE [_add_flag(st, Some(Append(PyStr(st.values[st.awaiting_exit].field_name), ETX)),
                    conversion, format_spec)
          EXCEPT !.awaiting_exit = 0]

_exit(st, conversion, format_spec) ==
    IF st.awaiting_exit = 0 THEN Raise(st)
    ELSE IF ~st.values[st.awaiting_exit].field_name.some THEN Raise(st)
    ELSE [_add_flag(st, Some(Append(st.values[st.awaiting_exit].field_name.v, ETX)),
                    conversion, format_spec)
          EXCEPT !.awaiting_exit = 0]

_stringify_values(values) ==
    [i \in 1..Len(values) |->
        IF values[i].fc THEN FormatContainer__str__(values[i]) ELSE values[i].s]

\* an ordinary field outside any group: enter marker, the field, exit marker
ImplicitPair_ExitFirst(st, name, conv, spec) ==
    _add_flag(_add_flag(_add_flag(st, Some(Append(name.v, ETX)), <<>>, <<>>),
                        name, conv, spec),
              Some(Append(name.v, STX)), <<>>, <<>>)

ImplicitPair(st, name, conv, spec) ==
    _add_flag(_add_flag(_add_flag(st, Some(Append(name.v, STX)), <<>>, <<>>),
                        name, conv, spec),
              Some(Append(name.v, ETX)), <<>>, <<>>)

\* one pass of the loop body of to_color_format, for one parsed tuple
ConvertTok(st0, tok) ==
    LET st == IF tok.literal_text # <<>>
              THEN [st0 EXCEPT !.values = Append(@, StrItem(tok.literal_text))]
              ELSE st0
        conv == _conversion(tok.conversion)
        spec == _format_spec(tok.format_spec)
        name == tok.field_name
    IN  IF ~name.some /\ ~tok.format_spec.some /\ ~tok.conversion.some THEN st
        ELSE IF ~Truthy(name) THEN _add_flag(st, None, conv, spec)
        ELSE IF Head(name.v) = US THEN _add_flag(st, Some(Tail(name.v)), conv, spec)
        ELSE IF name.v = <<"enter">> THEN _enter(st, conv, spec)
        ELSE IF name.v = <<"exit">> THEN _exit(st, conv, spec)
        ELSE IF st.awaiting_exit # 0 /\ st.values[st.awaiting_exit].field_name.some
             THEN _add_flag(st, name, conv, spec)
        ELSE IF st.awaiting_exit # 0
             THEN _add_flag([st EXCEPT !.values[st.awaiting_exit].field_name = name],
                            name, conv, spec)
        ELSE ImplicitPair(st, name, conv, spec)

RECURSIVE ConvertToks(_, _)
ConvertToks(st, toks) ==
    IF st.raised \/ toks = <<>> THEN st
    ELSE ConvertToks(ConvertTok(st, Head(toks)), Tail(toks))

\* to_color_format on a converter whose state is st0: the returned str, or raised,
\* and the state the instance is left in
to_color_format(st0, fmt) ==
    LET p == Parse(fmt)
        st == ConvertToks(st0, p.toks)
    IN  IF st.raised \/ ~p.ok
        THEN [raised |-> TRUE, ret |-> <<>>, values |-> st.values,
              awaiting_exit |-> st.awaiting_exit]
        ELSE [raised |-> FALSE, ret |-> Concat(_stringify_values(st.values)),
              values |-> <<>>, awaiting_exit |-> 0]

\* a new FormatStringConverter
NewConverter == ConvState(<<>>, 0)

\* one pass of the loop body of strip_color
StripTok(updated0, tok) ==
    LET updated == IF tok.literal_text # <<>> THEN Append(updated0, tok.literal_text)
                   ELSE updated0
        conv == _conversion(tok.conversion)
        spec == _format_spec(tok.format_spec)
        name == tok.field_name
    IN  IF name.some /\ name.v \in {<<"enter">>, <<"exit">>} THEN updated
        ELSE IF Truthy(name) /\ name.v[Len(name.v)] \in {STX, ETX} THEN updated
        ELSE IF Truthy(name) /\ Head(name.v) = US
             THEN Append(updated, _format_statement(Some(Tail(name.v)), conv, spec))
        ELSE Append(updated, _format_statement(name, conv, spec))

RECURSIVE StripToks(_, _)
StripToks(updated, toks) ==
    IF toks = <<>> THEN updated ELSE StripToks(StripTok(updated, Head(toks)), Tail(toks))

strip_color(fmt) ==
    LET p == Parse(fmt)
    IN  IF ~p.ok THEN [raised |-> TRUE, ret |-> <<>>]
        ELSE [raised |-> FALSE, ret |-> Concat(StripToks(<<>>, p.toks))]

----------------------------------------------------------------------------
(* LevelContainer                                                          *)

\* _valid_levels
Levels == {10, 20, 30, 40, 50}

\* the attributes of a LevelContainer, in the order the Formatter walks them
Attrs == <<"_debug", "_info", "_warning", "_error", "_critical", "_default">>

LevelAttrs == <<"_debug", "_info", "_warning", "_error", "_critical">>

AttrSet == { Attrs[i] : i \in 1..Len(Attrs) }

\* LevelContainer(debug, info, warning, error, critical, default=default)
LevelContainer(debug, info, warning, error, critical, default) ==
    [a \in AttrSet |->
        CASE a = "_debug" -> debug
          [] a = "_info" -> info
          [] a = "_warning" -> warning
          [] a = "_error" -> error
          [] a = "_critical" -> critical
          [] a = "_default" -> default]

\* _levelmap: the getter a level number selects, named by the attribute it reads
_levelmap(level) ==
    CASE level = 10 -> "_debug"
      [] level = 20 -> "_info"
      [] level = 30 -> "_warning"
      [] level = 40 -> "_error"
      [] level = 50 -> "_critical"

\* the per-call fallback of a getter when the caller gave none
MISSING == [given |-> FALSE, val |-> None]

\* value or self._default or (default if default is not MISSING else None);
\* truthy and truthy_default are the truthiness of value and of self._default
_get(c, value, truthy, truthy_default, default) ==
    IF truthy THEN value
    ELSE IF truthy_default THEN c["_default"]
    ELSE IF default.given THEN default.val
    ELSE None

\* debug(), info(), warning(), error(), critical() of a container of templates
LevelGetter(c, attr) == _get(c, c[attr], Truthy(c[attr]), Truthy(c["_default"]), MISSING)

\* get(level) of a container of templates
get(c, level) == LevelGetter(c, _levelmap(level))

\* iterall() of a container of templates
iterall(c) == [i \in 1..5 |-> LevelGetter(c, LevelAttrs[i])]

\* a level as a caller passes it: an int, a str, or a value of another type
IntLevel(n) == [type |-> "int", n |-> n, s |-> ""]
StrLevel(s) == [type |-> "str", n |-> 0, s |-> s]
OtherLevel(type) == [type |-> type, n |-> 0, s |-> ""]

LevelNames == {"CRITICAL", "FATAL", "ERROR", "WARN", "WARNING", "INFO", "DEBUG"}

_name_to_level(s) ==
    CASE s = "CRITICAL" -> 50
      [] s = "FATAL" -> 50
      [] s = "ERROR" -> 40
      [] s = "WARN" -> 30
      [] s = "WARNING" -> 30
      [] s = "INFO" -> 20
      [] s = "DEBUG" -> 10

\* _verify_level(level): the level number, or the error raised
_verify_level(level) ==
    IF level.type = "int"
    THEN (IF level.n \notin Levels THEN [error |-> "ValueError", level |-> 0]
          ELSE [error |-> "", level |-> level.n])
    ELSE IF level.type = "str"
    THEN (IF level.s \notin LevelNames THEN [error |-> "ValueError", level |-> 0]
          ELSE [error |-> "", level |-> _name_to_level(level.s)])
    ELSE [error |-> "TypeError", level |-> 0]

\* debug(default), info(default), ... of a container of templates
GetterWith(c, attr, default) ==
    _get(c, c[attr], Truthy(c[attr]), Truthy(c["_default"]), default)

\* the getter _levelmap selects for a verified level, called with default
GetVerified(c, v, default) ==
    IF v.error # "" THEN [error |-> v.error, ret |-> None]
    ELSE [error |-> "", ret |-> GetterWith(c, _levelmap(v.level), default)]

\* get(level, default) with the level as the caller passes it
GetLevel(c, level, default) == GetVerified(c, _verify_level(level), default)

----------------------------------------------------------------------------
(* Palette                                                                 *)

ESC == "ESC"

\* a color given to a Palette: a str of codes (str = TRUE, items its symbols) or an
\* iterable of strs (items the strs)
ColorStr(codes) == [str |-> TRUE, items |-> codes]
ColorMany(strs) == [str |-> FALSE, items |-> strs]
NoColor == [some |-> FALSE, v |-> ColorStr(<<>>)]
SomeColor(c) == [some |-> TRUE, v |-> c]
TruthyColor(o) == o.some /\ o.v.items # <<>>

\* entry.format(v)
entry(v) == <<ESC, "[">> \o v \o <<"m">>

format_many(values) == Concat([i \in 1..Len(values) |-> entry(values[i])])

\* Palette._set_colors over level_colors.iterall(): the colors dict
_set_colors(level_colors) ==
    [level \in Levels |->
        LET color == _get(level_colors, level_colors[_levelmap(level)],
                         TruthyColor(level_colors[_levelmap(level)]),
                         TruthyColor(level_colors["_default"]), MISSING)
        IN  IF ~color.some THEN <<>>
            ELSE IF color.v.str THEN entry(color.v.items)
            ELSE format_many(color.v.items)]

Palette(level_colors) == _set_colors(level_colors)

\* Palette.enter(levelno) and Palette.exit(levelno), on the colors dict
enter(colors, levelno) == IF levelno \in DOMAIN colors THEN colors[levelno] ELSE <<>>

exit_Always(colors, levelno) == <<ESC, "[", "0", "m">>

exit(colors, levelno) ==
    IF levelno \in DOMAIN colors /\ colors[levelno] # <<>> THEN <<ESC, "[", "0", "m">>
    ELSE <<>>

\* dict union a | b: b wins on a key both hold
DictUnion(a, b) ==
    [k \in DOMAIN a \cup DOMAIN b |-> IF k \in DOMAIN b THEN b[k] ELSE a[k]]

EmptyDict == [k \in {} |-> <<>>]

\* parse_palettes(levelno, palettes); palettes maps a field name to a Palette
parse_palettes(levelno, pals) ==
    IF DOMAIN pals = {} THEN EmptyDict
    ELSE DictUnion(
            [k \in { Append(n, STX) : n \in DOMAIN pals } |->
                enter(pals[SubSeq(k, 1, Len(k) - 1)], levelno)],
            [k \in { Append(n, ETX) : n \in DOMAIN pals } |->
                exit(pals[SubSeq(k, 1, Len(k) - 1)], levelno)])

----------------------------------------------------------------------------
(* constants.py and _validate_fmt                                          *)

\* VALID_FLAGS
VALID_FLAGS ==
    { <<w>> : w \in {"name", "message", "args", "levelname", "levelno", "pathname",
                     "filename", "module", "exc_info", "exc_text", "stack_info", "lineno",
                     "funcName", "created", "msecs", "relativeCreated", "thread",
                     "threadName", "processName", "process", "asctime", "enter", "exit"} }

\* the names COLOR_FORMAT_DEFAULTS holds markers for
ColorDefaultNames ==
    { <<w>> : w \in {"name", "message", "args", "levelname", "levelno", "pathname",
                     "filename", "module", "exc_info", "exc_text", "stack_info", "lineno",
                     "funcName", "created", "msecs", "relativeCreated", "thread",
                     "threadName", "processName", "process", "asctime"} }

COLOR_FORMAT_DEFAULTS ==
    [k \in { Append(n, STX) : n \in ColorDefaultNames }
           \cup { Append(n, ETX) : n \in ColorDefaultNames } |-> <<>>]

\* symbols that are not word characters (\w)
NonWord == {LB, RB, BANG, COLON, STX, ETX, ">5"}

\* field_spec.match(field_name), for names without attribute or index parts
field_spec_match(field_name) == \A i \in 1..Len(field_name) : field_name[i] \notin NonWord

\* fmt_spec.match(format_spec), for the format specs of the model
fmt_spec_match(format_spec) == format_spec = <<">5">>

Unescaped_Keep(fields) == fields

\* the names of a set of fields with one leading underscore removed
Unescaped(fields) == { IF Head(f) = US THEN Tail(f) ELSE f : f \in fields }

\* the body of _validate_fmt over p, what str_formatter.parse(fmt) yields: "ok", or the
\* error raised and the missing names
ValidateParsed(p, extra_keys) ==
    LET toks == p.toks
        named == { i \in 1..Len(toks) : Truthy(toks[i].field_name) }
        fields == { toks[i].field_name.v : i \in named }
        bad == \E i \in 1..Len(toks) :
                  \/ i \in named /\ ~field_spec_match(toks[i].field_name.v)
                  \/ Truthy(toks[i].conversion) /\ toks[i].conversion.v \notin
                                                      {<<"r">>, <<"s">>, <<"a">>}
                  \/ Truthy(toks[i].format_spec) /\ ~fmt_spec_match(toks[i].format_spec.v)
        missing == Unescaped(fields) \ (VALID_FLAGS \cup extra_keys)
    IN  IF bad \/ ~p.ok THEN [ok |-> FALSE, error |-> "Invalid format", missing |-> {}]
        ELSE IF fields = {} THEN [ok |-> FALSE, error |-> "no fields", missing |-> {}]
        ELSE IF missing # {} THEN [ok |-> FALSE, error |-> "Missing defaults",
                                   missing |-> missing]
        ELSE [ok |-> TRUE, error |-> "", missing |-> {}]

_validate_fmt(fmt, extra_keys) == ValidateParsed(Parse(fmt), extra_keys)

\* _format_defaults(default_keys)
_format_defaults(default_keys) ==
    IF default_keys = {} THEN EmptyDict
    ELSE [k \in { Append(n, STX) : n \in default_keys }
                \cup { Append(n, ETX) : n \in default_keys } |-> <<>>]

----------------------------------------------------------------------------
(* Formatter: construction                                                 *)

\* the backup_fmts argument and attribute: None, or a container
NoContainer == [none |-> TRUE, c |-> LevelContainer(None, None, None, None, None, None)]
Container(c) == [none |-> FALSE, c |-> c]

\* _ensure_sufficient_formats(fmt): TRUE when it returns, FALSE when it raises
_ensure_sufficient_formats(fmt) ==
    IF fmt["_default"].some THEN TRUE
    ELSE \A i \in 1..5 : iterall(fmt)[i].some

\* _ensure_format_validity(fmt, extras): TRUE when it returns, FALSE when it raises
_ensure_format_validity(fmt, extras) ==
    \A i \in 1..5 : iterall(fmt)[i].some => _validate_fmt(iterall(fmt)[i].v, extras).ok

\* _update_formats(fmt) from attribute i on, with one converter for all attributes:
\* the container as rewritten, and whether to_color_format raised on the way
RECURSIVE UpdateFrom(_, _, _)
\* setattr(fmt, attr, r) for the outcome r of converter.to_color_format(_fmt), and on
UpdateWith(fmt, r, i) ==
    IF r.raised THEN [raised |-> TRUE, c |-> fmt]
    ELSE UpdateFrom([fmt EXCEPT ![Attrs[i]] = Some(r.ret)],
                    ConvState(r.values, r.awaiting_exit), i + 1)

UpdateFrom(fmt, st, i) ==
    IF i > Len(Attrs) THEN [raised |-> FALSE, c |-> fmt]
    ELSE IF ~fmt[Attrs[i]].some THEN UpdateFrom(fmt, st, i + 1)
    ELSE UpdateWith(fmt, to_color_format(st, fmt[Attrs[i]].v), i)

_update_formats_Copy(fmt) == [raised |-> UpdateFrom(fmt, NewConverter, 1).raised, c |-> fmt]

\* _update_formats(fmt): whether it raised, and the container as it leaves it
_update_formats(fmt) == UpdateFrom(fmt, NewConverter, 1)

\* _fix_backups(fmts, backup_fmts, True) from attribute i on
RECURSIVE FixNewFrom(_, _, _)
\* setattr(backup_fmts, attr, r) for the outcome r of strip_color(val), and on
FixNewWith(fmt, backup, r, i) ==
    IF r.raised THEN [raised |-> TRUE, c |-> backup]
    ELSE FixNewFrom(fmt, [backup EXCEPT ![Attrs[i]] = Some(r.ret)], i + 1)

FixNewFrom(fmt, backup, i) ==
    IF i > Len(Attrs) THEN [raised |-> FALSE, c |-> backup]
    ELSE IF ~Truthy(fmt[Attrs[i]]) THEN FixNewFrom(fmt, backup, i + 1)
    ELSE FixNewWith(fmt, backup, strip_color(fmt[Attrs[i]].v), i)

FixSupplied_FromDefault(fmt, backup) ==
    [a \in AttrSet |->
        IF a # "_default" /\ ~Truthy(LevelGetter(backup, a)) THEN fmt["_default"]
        ELSE backup[a]]

\* _fix_backups(fmts, backup_fmts, False): the levels without a backup template get the
\* template fmts holds for them at this time
FixSupplied(fmt, backup) ==
    [a \in AttrSet |->
        IF a # "_default" /\ ~Truthy(LevelGetter(backup, a)) THEN LevelGetter(fmt, a)
        ELSE backup[a]]

_fix_backups(fmt, backup, make_new) ==
    IF make_new THEN FixNewFrom(fmt, backup, 1)
    ELSE [raised |-> FALSE, c |-> FixSupplied(fmt, backup)]

\* Formatter.__init__(fmts, defaults=defaults, backup_fmts=backup): whether it returned,
\* and the two containers as it left them. fixed is the outcome of _fix_backups, kept the
\* backup_fmts object of the caller as a failing call leaves it, upd the outcome of
\* _update_formats
InitUpdated(kept, fixed, upd) ==
    [ok |-> ~upd.raised, fmts |-> upd.c,
     backup_fmts |-> IF upd.raised THEN kept ELSE Container(fixed.c)]

InitFixed(fmt, backup, fixed, kept) ==
    IF fixed.raised THEN [ok |-> FALSE, fmts |-> fmt, backup_fmts |-> kept]
    ELSE InitUpdated(kept, fixed, _update_formats(fmt))

InitValid(fmt, backup, fixed) ==
    InitFixed(fmt, backup, fixed, IF backup.none THEN backup ELSE Container(fixed.c))

FormatterInit(fmt, dflts, backup) ==
    LET default_keys == DOMAIN dflts
        unchanged == [ok |-> FALSE, fmts |-> fmt, backup_fmts |-> backup]
        supplied == IF backup.none THEN NoContainer.c ELSE backup.c
    IN  IF ~_ensure_sufficient_formats(fmt) THEN unchanged
        ELSE IF ~_ensure_format_validity(fmt, default_keys) THEN unchanged
        ELSE IF ~backup.none /\ ~_ensure_format_validity(backup.c, default_keys) THEN unchanged
        ELSE InitValid(fmt, backup, _fix_backups(fmt, supplied, backup.none))

----------------------------------------------------------------------------
(* Formatter: selection and rendering                                      *)

_ensure_ssc_set_Lenient(ssc) == TRUE

\* _ensure_ssc_set: TRUE when it returns, FALSE when it raises
_ensure_ssc_set(ssc) == ssc \in {"True", "False"}

_get_fmt_str_MainOnly(f, levelno) ==
    IF ~_ensure_ssc_set(f.stream_supports_color) THEN [raised |-> TRUE, fmt |-> None]
    ELSE [raised |-> FALSE, fmt |-> get(f.fmts, levelno)]

\* _get_fmt_str(levelno): the template (or None), or raised
_get_fmt_str(f, levelno) ==
    IF ~_ensure_ssc_set(f.stream_supports_color) THEN [raised |-> TRUE, fmt |-> None]
    ELSE IF f.force_ansi \/ f.stream_supports_color = "True"
         THEN [raised |-> FALSE, fmt |-> get(f.fmts, levelno)]
    ELSE IF f.stream_supports_color = "False" /\ f.backup_fmts.none
         THEN [raised |-> FALSE, fmt |-> get(f.fmts, levelno)]
    ELSE [raised |-> FALSE, fmt |-> Or(get(f.backup_fmts.c, levelno), get(f.fmts, levelno))]

\* the words of the attributes a LogRecord is created with
RecordWords ==
    {"name", "msg", "args", "levelname", "levelno", "pathname", "filename", "module",
     "exc_info", "exc_text", "stack_info", "lineno", "funcName", "created", "msecs",
     "relativeCreated", "thread", "threadName", "processName", "process"}

LevelName(levelno) ==
    CASE levelno = 10 -> "DEBUG"
      [] levelno = 20 -> "INFO"
      [] levelno = 30 -> "WARNING"
      [] levelno = 40 -> "ERROR"
      [] levelno = 50 -> "CRITICAL"

\* a LogRecord: the attributes the Formatter reads or writes; time_calls is not an
\* attribute, it counts the calls of formatTime(record, datefmt) on this record
LogRecord(levelno, exc_info) ==
    [levelno |-> levelno, message |-> None, asctime |-> None, exc_info |-> exc_info,
     exc_text |-> None, stack_info |-> None, time_calls |-> 0]

\* record.__dict__, every value as str.format prints it
RecordDict(r) ==
    [k \in { <<w>> : w \in RecordWords }
           \cup (IF r.message.some THEN {<<"message">>} ELSE {})
           \cup (IF r.asctime.some THEN {<<"asctime">>} ELSE {}) |->
        CASE k = <<"name">> -> <<"svc">>
          [] k = <<"levelname">> -> <<LevelName(r.levelno)>>
          [] k = <<"message">> -> r.message.v
          [] k = <<"asctime">> -> r.asctime.v
          [] k = <<"exc_info">> -> PyStr(r.exc_info)
          [] k = <<"exc_text">> -> PyStr(r.exc_text)
          [] k = <<"stack_info">> -> PyStr(r.stack_info)
          [] OTHER -> <<"val">>]

ColorKwargs_DefaultsLast(f, r) ==
    DictUnion(DictUnion(DictUnion(DictUnion(
        COLOR_FORMAT_DEFAULTS,
        _format_defaults(DOMAIN f.defaults)),
        parse_palettes(r.levelno, f.palettes)),
        RecordDict(r)),
        f.defaults)

\* the table of _get_fmt_kwargs in color mode
ColorKwargs(f, r) ==
    DictUnion(DictUnion(DictUnion(DictUnion(
        COLOR_FORMAT_DEFAULTS,
        _format_defaults(DOMAIN f.defaults)),
        parse_palettes(r.levelno, f.palettes)),
        f.defaults),
        RecordDict(r))

\* _get_fmt_kwargs(record): the substitution table, or raised
_get_fmt_kwargs(f, r) ==
    IF ~_ensure_ssc_set(f.stream_supports_color) THEN [raised |-> TRUE, kwargs |-> EmptyDict]
    ELSE IF f.force_ansi \/ f.stream_supports_color = "True"
         THEN [raised |-> FALSE, kwargs |-> ColorKwargs(f, r)]
    ELSE IF f.stream_supports_color = "False" /\ f.backup_fmts.none
         THEN [raised |-> FALSE,
               kwargs |-> DictUnion(DictUnion(DictUnion(
                              COLOR_FORMAT_DEFAULTS,
                              _format_defaults(DOMAIN f.defaults)),
                              f.defaults),
                              RecordDict(r))]
    ELSE [raised |-> FALSE, kwargs |-> DictUnion(f.defaults, RecordDict(r))]

\* format(value, spec) after the conversion, kept symbolic
ApplyFormat(value, tok) ==
    LET converted == IF Truthy(tok.conversion) THEN <<"'">> \o value \o <<"'">> ELSE value
    IN  IF Truthy(tok.format_spec) THEN tok.format_spec.v \o <<"(">> \o converted \o <<")">>
        ELSE converted

\* fmt.format(**kwargs) over the parsed tuples: the text, or the first error
RECURSIVE FormatToks(_, _, _, _)
FormatToks(toks, parsed_ok, kwargs, text) ==
    IF toks = <<>> THEN
        IF parsed_ok THEN [status |-> "ok", text |-> text, key |-> <<>>]
        ELSE [status |-> "ValueError", text |-> <<>>, key |-> <<>>]
    ELSE LET tok == Head(toks)
             t1 == text \o tok.literal_text
         IN  IF ~tok.field_name.some THEN FormatToks(Tail(toks), parsed_ok, kwargs, t1)
             ELSE IF tok.field_name.v = <<>>
                  THEN [status |-> "IndexError", text |-> <<>>, key |-> <<>>]
             ELSE IF tok.field_name.v \notin DOMAIN kwargs
                  THEN [status |-> "KeyError", text |-> <<>>, key |-> tok.field_name.v]
             ELSE FormatToks(Tail(toks), parsed_ok, kwargs,
                             t1 \o ApplyFormat(kwargs[tok.field_name.v], tok))

FormatParsed(p, kwargs) == FormatToks(p.toks, p.ok, kwargs, <<>>)

str_format(fmt, kwargs) == FormatParsed(Parse(fmt), kwargs)

\* the except clause of formatMessage: a KeyError becomes the missing-field ValueError
Reraise(out) ==
    IF out.status = "KeyError"
    THEN [status |-> "MissingField", text |-> <<>>, key |-> out.key]
    ELSE [status |-> out.status, text |-> out.text, key |-> <<>>]

\* fmt.format(**kwargs) for the outcome kw of _get_fmt_kwargs
FormatWith(fmt, kw) ==
    IF kw.raised THEN [status |-> "ConfigError", text |-> <<>>, key |-> <<>>]
    ELSE Reraise(str_format(fmt, kw.kwargs))

\* formatMessage(fmt, record)
formatMessage(f, fmt, r) == FormatWith(fmt, _get_fmt_kwargs(f, r))

\* usesTime(fmt): fmt.find("{asctime") >= 0
usesTime(fmt) == \E i \in 1..(Len(fmt) - 1) : fmt[i] = LB /\ fmt[i + 1] = "asctime"

\* formatException(exc_info, levelno)
formatException(f, levelno) ==
    LET s == <<"Traceback">>
    IN  IF ~f.force_ansi /\ f.stream_supports_color = "False" THEN s
        ELSE IF <<"exc_text">> \notin DOMAIN f.palettes THEN s
        ELSE enter(f.palettes[<<"exc_text">>], levelno) \o s
             \o exit(f.palettes[<<"exc_text">>], levelno)

NL == "\n"

\* s, a newline unless s ends with one, and more
AppendBlock(s, more) ==
    (IF s = <<>> \/ s[Len(s)] # NL THEN Append(s, NL) ELSE s) \o more

\* a call of format that raised: the record as the call leaves it
Failed(status, key, selected, rec) ==
    [status |-> status, text |-> <<>>, key |-> key, selected |-> selected, record |-> rec]

\* the end of format: the exception text and the stack are appended to the message s
FormatTail(s, selected, r3) ==
    [status |-> "ok",
     text |-> IF Truthy(r3.stack_info)
              THEN AppendBlock(IF Truthy(r3.exc_text) THEN AppendBlock(s, r3.exc_text.v)
                               ELSE s,
                               r3.stack_info.v)
              ELSE IF Truthy(r3.exc_text) THEN AppendBlock(s, r3.exc_text.v)
              ELSE s,
     key |-> <<>>, selected |-> selected, record |-> r3]

FormatRendered_NoCache(f, selected, r2, m) ==
    IF m.status # "ok" THEN Failed(m.status, m.key, selected, r2)
    ELSE [FormatTail(m.text, selected,
                     IF r2.exc_info.some /\ ~Truthy(r2.exc_text)
                     THEN [r2 EXCEPT !.exc_text = Some(formatException(f, r2.levelno))]
                     ELSE r2)
          EXCEPT !.record = r2]

\* format after formatMessage gave m: exc_text is cached and exc_info removed
FormatRendered(f, selected, r2, m) ==
    IF m.status # "ok" THEN Failed(m.status, m.key, selected, r2)
    ELSE FormatTail(m.text, selected,
                    IF r2.exc_info.some /\ ~Truthy(r2.exc_text)
                    THEN [r2 EXCEPT !.exc_text = Some(formatException(f, r2.levelno)),
                                    !.exc_info = None]
                    ELSE r2)

\* format after the time was set on the record
FormatTimed(f, selected, r2) ==
    FormatRendered(f, selected, r2, formatMessage(f, selected.v, r2))

\* format after _get_fmt_str gave sel
FormatSelected(f, r1, sel) ==
    IF sel.raised THEN Failed("ConfigError", <<>>, sel.fmt, r1)
    ELSE IF ~sel.fmt.some THEN Failed("AttributeError", <<>>, sel.fmt, r1)
    ELSE FormatTimed(f, sel.fmt,
                     IF usesTime(sel.fmt.v)
                     THEN [r1 EXCEPT !.asctime = Some(<<"12:00">>), !.time_calls = @ + 1]
                     ELSE r1)

format_NoMessage(f, r0) ==
    FormatSelected(f, r0, _get_fmt_str(f, r0.levelno))

\* format(record): the outcome and the record as the call leaves it
format(f, r0) ==
    FormatSelected(f, [r0 EXCEPT !.message = Some(<<"started">>)],
                   _get_fmt_str(f, r0.levelno))

----------------------------------------------------------------------------
(* Converter calls: templates are built from pieces                        *)

MaxPieces == 4
MaxRetryPieces == 1

Pieces ==
    { <<"a">>,                                      \* literal text
      <<LB, LB>>,                                   \* an escaped brace
      <<LB, "name", RB>>,                           \* {name}
      <<LB, "message", BANG, "r", COLON, ">5", RB>>,  \* {message!r:>5}
      <<LB, "enter", RB>>,                          \* {enter}
      <<LB, "exit", RB>>,                           \* {exit}
      <<LB, US, "name", RB>>,                       \* {_name}
      <<LB, RB>> }                                  \* {}

PieceSeqs(n) == UNION { [1..k -> Pieces] : k \in 0..n }

\* templates for _validate_fmt: names in and outside VALID_FLAGS, escaped names, a
\* conversion that is not r, s or a
MaxValPieces == 3

ValPieces ==
    { <<"a">>,                                      \* literal text
      <<LB, "name", RB>>,                           \* {name}
      <<LB, US, "name", RB>>,                       \* {_name}
      <<LB, US, US, "name", RB>>,                   \* {__name}
      <<LB, "tag", RB>>,                            \* {tag}
      <<LB, US, "tag", RB>>,                        \* {_tag}
      <<LB, "name", BANG, "x", RB>>,                \* {name!x}
      <<LB, RB>> }                                  \* {}

ValPieceSeqs(n) == UNION { [1..k -> ValPieces] : k \in 0..n }

\* the extra_keys a caller passes: list(defaults.keys())
ExtraKeys == { {}, {<<"tag">>} }

NoOp == [op |-> "none"]

InitFormatterIdle ==
    /\ phase = "new"
    /\ fmts = LevelContainer(None, None, None, None, None, None)
    /\ backup_fmts = [none |-> TRUE, c |-> LevelContainer(None, None, None, None, None, None)]
    /\ defaults = <<>>
    /\ palettes = <<>>
    /\ force_ansi = FALSE
    /\ stream_supports_color = "None"
    /\ arg_fmts = LevelContainer(None, None, None, None, None, None)
    /\ arg_backup = [none |-> TRUE, c |-> LevelContainer(None, None, None, None, None, None)]
    /\ record = LogRecord(0, None)

InitConv ==
    /\ InitFormatterIdle
    /\ conv_values = <<>>
    /\ conv_awaiting = 0
    /\ conv_in \in PieceSeqs(MaxPieces) \cup ValPieceSeqs(MaxValPieces)
    /\ last = NoOp

\* converter.to_color_format(fmt) on the instance whose state is <<values, awaiting_exit>>
CallToColorFormat(ps) ==
    \E r \in {to_color_format(ConvState(conv_values, conv_awaiting), Concat(ps))} :
        /\ conv_values' = r.values
        /\ conv_awaiting' = r.awaiting_exit
        /\ conv_in' = ps
        /\ last' = [op |-> "to_color_format", arg |-> Concat(ps),
                    clean |-> (conv_values = <<>> /\ conv_awaiting = 0),
                    raised |-> r.raised, ret |-> r.ret]
        /\ UNCHANGED fmtr_vars

\* the first call on a new converter
ToColorFormat ==
    /\ last = NoOp
    /\ CallToColorFormat(conv_in)

\* a further call on the same instance after a call that raised
ToColorFormatAgain ==
    /\ last.op = "to_color_format" /\ last.raised /\ last.clean
    /\ \E ps \in PieceSeqs(MaxRetryPieces) : CallToColorFormat(ps)

\* FormatStringConverter.strip_color(fmt), a static method
StripColor ==
    /\ last = NoOp
    /\ \E r \in {strip_color(Concat(conv_in))} :
           last' = [op |-> "strip_color", arg |-> Concat(conv_in), clean |-> TRUE,
                    raised |-> r.raised, ret |-> r.ret]
    /\ UNCHANGED conv_vars
    /\ UNCHANGED fmtr_vars

\* _validate_fmt(fmt, extra_keys)
ValidateFmt ==
    /\ last = NoOp
    /\ \E extra_keys \in ExtraKeys :
       \E r \in {_validate_fmt(Concat(conv_in), extra_keys)} :
           last' = [op |-> "_validate_fmt", arg |-> Concat(conv_in), extra |-> extra_keys,
                    ok |-> r.ok, error |-> r.error, missing |-> r.missing]
    /\ UNCHANGED conv_vars
    /\ UNCHANGED fmtr_vars

NextConv == ToColorFormat \/ ToColorFormatAgain \/ StripColor \/ ValidateFmt

SpecConv == InitConv /\ [][NextConv]_vars

----------------------------------------------------------------------------
(* LevelContainer lookups: a container a caller built is asked for values   *)

\* what a caller may put in slot a: nothing, an empty string, a string naming the slot
SlotValues(a) == {None, Some(<<>>), Some(<<a>>)}

SomeContainers ==
    { LevelContainer(d, i, w, e, c, df) :
        d \in SlotValues("_debug"), i \in SlotValues("_info"),
        w \in SlotValues("_warning"), e \in SlotValues("_error"),
        c \in SlotValues("_critical"), df \in SlotValues("_default") }

LevelInputs ==
    { IntLevel(n) : n \in Levels \cup {25} }
    \cup { StrLevel(n) : n \in LevelNames \cup {"TRACE", "warning"} }
    \cup { OtherLevel("bool"), OtherLevel("float") }

Fallbacks == {MISSING, [given |-> TRUE, val |-> Some(<<"fallback">>)]}

InitLevels ==
    /\ phase = "new"
    /\ fmts = NoContainer.c
    /\ backup_fmts = NoContainer
    /\ defaults = <<>>
    /\ palettes = <<>>
    /\ force_ansi = FALSE
    /\ stream_supports_color = "None"
    /\ arg_fmts \in SomeContainers
    /\ arg_backup = NoContainer
    /\ record = LogRecord(0, None)
    /\ conv_values = <<>>
    /\ conv_awaiting = 0
    /\ conv_in = <<>>
    /\ last = NoOp

\* container.get(level) and container.get(level, default)
Get ==
    /\ last = NoOp
    /\ \E level \in LevelInputs, default \in Fallbacks :
       \E r \in {GetLevel(arg_fmts, level, default)} :
           last' = [op |-> "get", level |-> level, default |-> default,
                    error |-> r.error, ret |-> r.ret]
    /\ UNCHANGED <<fmtr_vars, conv_vars>>

\* container.debug(), container.info(default), ...
Getter ==
    /\ last = NoOp
    /\ \E i \in 1..5, default \in Fallbacks :
           last' = [op |-> "getter", attr |-> LevelAttrs[i], default |-> default,
                    error |-> "", ret |-> GetterWith(arg_fmts, LevelAttrs[i], default)]
    /\ UNCHANGED <<fmtr_vars, conv_vars>>

NextLevels == Get \/ Getter

SpecLevels == InitLevels /\ [][NextLevels]_vars

----------------------------------------------------------------------------
(* Palette markers: a Palette a caller built is asked for its sequences    *)

\* what a caller may give as a level's color: nothing, an empty str, one code, an empty
\* sequence, a sequence of codes
SomeColors ==
    { NoColor, SomeColor(ColorStr(<<>>)), SomeColor(ColorStr(<<"35">>)),
      SomeColor(ColorMany(<<>>)), SomeColor(ColorMany(<< <<"1">>, <<"35">> >>)) }

SomeLevelColors ==
    { LevelContainer(d, i, w, e, c, df) :
        d \in SomeColors, i \in SomeColors, w \in SomeColors, e \in SomeColors,
        c \in SomeColors, df \in SomeColors }

\* level numbers a record may carry, known or not
SomeLevelnos == Levels \cup {0, 25}

InitPalette ==
    /\ phase = "new"
    /\ fmts = NoContainer.c
    /\ backup_fmts = NoContainer
    /\ defaults = <<>>
    /\ \E level_colors \in SomeLevelColors :
          palettes = [n \in {<<"name">>} |-> Palette(level_colors)]
    /\ force_ansi = FALSE
    /\ stream_supports_color = "None"
    /\ arg_fmts = NoContainer.c
    /\ arg_backup = NoContainer
    /\ record = LogRecord(0, None)
    /\ conv_values = <<>>
    /\ conv_awaiting = 0
    /\ conv_in = <<>>
    /\ last = NoOp

\* palette.enter(levelno) and palette.exit(levelno), as parse_palettes calls them
Markers ==
    /\ last = NoOp
    /\ \E levelno \in SomeLevelnos :
           last' = [op |-> "markers", levelno |-> levelno,
                    enter |-> enter(palettes[<<"name">>], levelno),
                    exit |-> exit(palettes[<<"name">>], levelno),
                    table |-> parse_palettes(levelno, palettes)]
    /\ UNCHANGED <<fmtr_vars, conv_vars>>

NextPalette == Markers

SpecPalette == InitPalette /\ [][NextPalette]_vars

----------------------------------------------------------------------------
(* The Formatter's life: construction, setup, rendering                    *)

MaxRenders == 2

T_name == <<LB, "name", RB>>
T_trail == <<LB, "name", RB, "a">>
T_group == <<LB, "enter", RB, "a", LB, "name", RB, LB, "exit", RB>>
T_open == <<LB, "enter", RB>>
T_exit == <<LB, "exit", RB>>
T_tag == <<LB, "tag", RB>>
T_literal == <<"a">>
T_brace == <<LB, LB, "a", RB, RB, LB, "name", RB>>
T_time == <<LB, US, "asctime", RB, LB, "message", BANG, "r", COLON, ">5", RB>>
B_escaped == <<LB, US, "name", RB>>
B_name == <<"[", LB, "name", RB>>
B_message == <<LB, "message", RB>>

\* the attribute of fmts and backup_fmts whose value ranges over all templates
FocusAttr == "_warning"

FocusValues ==
    {None, Some(<<>>)} \cup
    { Some(t) : t \in {T_name, T_trail, T_group, T_open, T_exit, T_tag, T_literal,
                       T_brace, T_time} }

\* the value w of the other four levels and the default d
OtherValues ==
    { [w |-> None, d |-> None], [w |-> Some(T_name), d |-> None],
      [w |-> None, d |-> Some(T_name)], [w |-> None, d |-> Some(<<>>)] }

\* the fmts containers a caller passes
FmtsArgs ==
    { [a \in AttrSet |-> IF a = FocusAttr THEN v ELSE IF a = "_default" THEN o.d ELSE o.w] :
        v \in FocusValues, o \in OtherValues }

\* the backup_fmts a caller passes: None or a container
BackupArgs ==
    {NoContainer} \cup
    { Container([a \in AttrSet |-> IF a = FocusAttr THEN b.v
                                   ELSE IF a = "_default" THEN b.d ELSE None]) :
        b \in { [v |-> None, d |-> None], [v |-> None, d |-> Some(B_name)],
                [v |-> Some(B_message), d |-> None], [v |-> Some(T_group), d |-> None],
                [v |-> Some(B_escaped), d |-> Some(B_name)] } }

NamePalette ==
    Palette(LevelContainer(SomeColor(ColorStr(<<"32;1">>)), NoColor, NoColor, NoColor,
                           SomeColor(ColorMany(<< <<"1">>, <<"31">> >>)), NoColor))

TagPalette ==
    Palette(LevelContainer(NoColor, NoColor, NoColor, NoColor, NoColor,
                           SomeColor(ColorStr(<<"35">>))))

SomePalettes ==
    [k \in {<<"name">>, <<"tag">>, <<"exc_text">>} |->
        IF k = <<"name">> THEN NamePalette ELSE TagPalette]

SomeDefaults ==
    [k \in {<<"tag">>, <<"name">>, <<"name", STX>>} |->
        IF k = <<"tag">> THEN <<"T">> ELSE IF k = <<"name">> THEN <<"dflt">> ELSE <<"*">>]

\* the defaults and palettes a caller passes
KeywordArgs ==
    { [defaults |-> EmptyDict, palettes |-> EmptyDict],
      [defaults |-> SomeDefaults, palettes |-> SomePalettes] }

\* the Formatter at hand
Self ==
    [fmts |-> fmts, backup_fmts |-> backup_fmts, defaults |-> defaults, palettes |-> palettes,
     force_ansi |-> force_ansi, stream_supports_color |-> stream_supports_color]

NoRecord == LogRecord(0, None)

\* the records that are logged: every level, and two levels with exception info
RecordArgs ==
    { LogRecord(levelno, None) : levelno \in Levels }
    \cup { LogRecord(levelno, Some(<<"exc">>)) : levelno \in {30, 40} }

Init ==
    /\ phase = "new"
    /\ fmts = NoContainer.c
    /\ backup_fmts = NoContainer
    /\ defaults = EmptyDict
    /\ palettes = EmptyDict
    /\ force_ansi = FALSE
    /\ stream_supports_color = "None"
    /\ arg_fmts = NoContainer.c
    /\ arg_backup = NoContainer
    /\ record = NoRecord
    /\ conv_values = <<>>
    /\ conv_awaiting = 0
    /\ conv_in = <<>>
    /\ last = NoOp

\* Formatter(fmts, defaults=..., force_ansi=..., backup_fmts=..., **palettes)
Construct ==
    /\ phase = "new"
    /\ \E f \in FmtsArgs, b \in BackupArgs, kw \in KeywordArgs, force \in BOOLEAN :
          \E r \in {FormatterInit(f, kw.defaults, b)} :
          /\ phase' = IF r.ok THEN "ready" ELSE "failed"
          /\ fmts' = r.fmts
          /\ backup_fmts' = r.backup_fmts
          /\ defaults' = IF r.ok THEN kw.defaults ELSE EmptyDict
          /\ palettes' = IF r.ok THEN kw.palettes ELSE EmptyDict
          /\ force_ansi' = (r.ok /\ force)
          /\ stream_supports_color' = "None"
          /\ arg_fmts' = f
          /\ arg_backup' = b
          /\ last' = [op |-> "init", ok |-> r.ok]
    /\ UNCHANGED <<record, conv_vars>>

setup_existing_Overwrite(ssc, has_stream, probe) ==
    IF ~has_stream THEN "False" ELSE IF probe THEN "True" ELSE "False"

\* the stream_supports_color setup_existing leaves on a Formatter that had ssc
setup_existing(ssc, has_stream, probe) ==
    IF ssc = "None"
    THEN (IF ~has_stream THEN "False" ELSE IF probe THEN "True" ELSE "False")
    ELSE ssc

\* setup_existing(logger, handler=handler, formatter=formatter) with this Formatter:
\* has_stream is hasattr(handler, "stream"), probe what _stream_supports_color returns
SetupExisting ==
    /\ phase = "ready"
    /\ \E has_stream \in BOOLEAN, probe \in BOOLEAN :
          /\ stream_supports_color' = setup_existing(stream_supports_color, has_stream, probe)
          /\ last' = [op |-> "setup", has_stream |-> has_stream, probe |-> probe,
                      was |-> stream_supports_color]
    /\ record' = NoRecord
    /\ UNCHANGED <<phase, fmts, backup_fmts, defaults, palettes, force_ansi, arg_fmts,
                   arg_backup, conv_vars>>

\* the handler formats a record: r is the record before the call
Render(r, n) ==
    \E out \in {format(Self, r)} :
    /\ record' = out.record
    /\ last' = [op |-> "format", levelno |-> r.levelno, status |-> out.status,
                text |-> out.text, key |-> out.key, selected |-> out.selected,
                renders |-> n, before |-> r]
    /\ UNCHANGED <<phase, fmts, backup_fmts, defaults, palettes, force_ansi,
                   stream_supports_color, arg_fmts, arg_backup, conv_vars>>

\* a new record is logged and formatted
Format ==
    /\ phase = "ready"
    /\ record = NoRecord
    /\ \E r \in RecordArgs : Render(r, 1)

\* the record at hand is formatted once more (a second handler, a retry)
FormatAgain ==
    /\ phase = "ready"
    /\ last.op = "format"
    /\ last.renders < MaxRenders
    /\ Render(record, last.renders + 1)

Next == Construct \/ SetupExisting \/ Format \/ FormatAgain

Spec == Init /\ [][Next]_vars

----------------------------------------------------------------------------
(* Properties of the converter                                             *)

Toks(t) == Parse(t).toks

IsEnter(tok) == tok.field_name = Some(<<"enter">>)
IsExit(tok) == tok.field_name = Some(<<"exit">>)
IsEscaped(tok) == Truthy(tok.field_name) /\ Head(tok.field_name.v) = US
IsOrdinary(tok) ==
    /\ Truthy(tok.field_name)
    /\ Head(tok.field_name.v) # US
    /\ ~IsEnter(tok) /\ ~IsExit(tok)

\* the enter and exit tuples among the first k
Marks(toks, k) == { i \in 1..k : IsEnter(toks[i]) \/ IsExit(toks[i]) }

LastMark(toks, k) == CHOOSE i \in Marks(toks, k) : \A j \in Marks(toks, k) : j <= i

\* after the first k tuples a group is open: the last enter/exit among them is an enter
GroupOpenAfter(toks, k) == Marks(toks, k) # {} /\ IsEnter(toks[LastMark(toks, k)])

\* ... and an ordinary field has followed that enter
GroupBoundAfter(toks, k) ==
    /\ GroupOpenAfter(toks, k)
    /\ \E i \in (LastMark(toks, k) + 1)..k : IsOrdinary(toks[i])

\* a field reference as it is written in a template
FieldRef(name, tok) ==
    <<LB>> \o name
           \o (IF tok.conversion.some THEN <<BANG>> \o tok.conversion.v ELSE <<>>)
           \o (IF tok.format_spec.v # <<>> THEN <<COLON>> \o tok.format_spec.v ELSE <<>>)
           \o <<RB>>

EnterMarker(name) == <<LB>> \o name \o <<STX, RB>>
ExitMarker(name) == <<LB>> \o name \o <<ETX, RB>>

\* what a new converter emits for a run of tuples
Out(toks) == Concat(_stringify_values(ConvertToks(NewConverter, toks).values))

\* a call of to_color_format on an instance with no pending values and no open group
CleanCall == last.op = "to_color_format" /\ last.clean

\* C2: to_color_format raises whenever the template ends while an enter group is still
\* open, bound or not
C2_UnterminatedGroupRaises ==
    (CleanCall /\ GroupOpenAfter(Toks(last.arg), Len(Toks(last.arg)))) => last.raised

\* C5: an ordinary field met while no group is open is emitted as enter marker, the field
\* with its conversion and format spec, exit marker; the literal text before it and
\* everything around it is emitted in order
C5_ImplicitPair ==
    (CleanCall /\ ~last.raised) =>
        LET toks == Toks(last.arg) IN
        \A k \in 1..Len(toks) :
            (IsOrdinary(toks[k]) /\ ~GroupOpenAfter(toks, k - 1)) =>
                last.ret = Out(SubSeq(toks, 1, k - 1))
                           \o toks[k].literal_text
                           \o EnterMarker(toks[k].field_name.v)
                           \o FieldRef(toks[k].field_name.v, toks[k])
                           \o ExitMarker(toks[k].field_name.v)
                           \o Out(SubSeq(toks, k + 1, Len(toks)))

\* an ordinary field with conversion and format spec, between literals, was compiled
C5_Witness ==
    /\ CleanCall /\ ~last.raised
    /\ \E k \in 2..(Len(Toks(last.arg)) - 1) :
          LET tok == Toks(last.arg)[k] IN
          /\ IsOrdinary(tok) /\ ~GroupOpenAfter(Toks(last.arg), k - 1)
          /\ tok.conversion.some /\ tok.format_spec.v # <<>> /\ tok.literal_text # <<>>

\* the template holds exactly one enter, at e, and one exit, at x, with an ordinary field
\* between them
OneGroup(toks, e, x) ==
    /\ e \in 1..Len(toks) /\ x \in 1..Len(toks) /\ e < x
    /\ \A i \in 1..Len(toks) : IsEnter(toks[i]) <=> i = e
    /\ \A i \in 1..Len(toks) : IsExit(toks[i]) <=> i = x
    /\ \E i \in (e + 1)..(x - 1) : IsOrdinary(toks[i])

FirstOrdinary(toks, e, x) ==
    toks[CHOOSE i \in (e + 1)..(x - 1) :
            /\ IsOrdinary(toks[i])
            /\ \A j \in (e + 1)..(i - 1) : ~IsOrdinary(toks[j])].field_name.v

\* the tuples e+1..x-1 as they were written: literal text and field references
RECURSIVE AsWritten(_)
AsWritten(toks) ==
    IF toks = <<>> THEN <<>>
    ELSE Head(toks).literal_text
         \o (IF Head(toks).field_name.some THEN FieldRef(Head(toks).field_name.v, Head(toks))
             ELSE <<>>)
         \o AsWritten(Tail(toks))

\* the same, with the underscore of an escaped name removed
RECURSIVE AsWrittenUnescaped(_)
AsWrittenUnescaped(toks) ==
    IF toks = <<>> THEN <<>>
    ELSE Head(toks).literal_text
         \o (IF ~Head(toks).field_name.some THEN <<>>
             ELSE IF IsEscaped(Head(toks))
                  THEN FieldRef(Tail(Head(toks).field_name.v), Head(toks))
             ELSE FieldRef(Head(toks).field_name.v, Head(toks)))
         \o AsWrittenUnescaped(Tail(toks))

GroupOutput(toks, e, x, inner) ==
    Out(SubSeq(toks, 1, e - 1))
    \o toks[e].literal_text
    \o FieldRef(Append(FirstOrdinary(toks, e, x), STX), toks[e])
    \o inner
    \o toks[x].literal_text
    \o FieldRef(Append(FirstOrdinary(toks, e, x), ETX), toks[x])
    \o Out(SubSeq(toks, x + 1, Len(toks)))

\* C6 as stated: with exactly one well-formed group, one enter marker stands where {enter}
\* stood and one exit marker where {exit} stood, both named after the first ordinary field
\* of the group, and every field and literal inside the group is emitted unchanged
C6_GroupInteriorUnchanged ==
    CleanCall =>
        LET toks == Toks(last.arg) IN
        \A e, x \in 1..Len(toks) :
            OneGroup(toks, e, x) =>
                /\ ~last.raised
                /\ last.ret = GroupOutput(toks, e, x, AsWritten(SubSeq(toks, e + 1, x - 1)))

\* C6 amended: ... every ordinary field, empty field and literal inside the group is
\* emitted unchanged, an underscore-escaped field inside the group is emitted without its
\* underscore, and none of them gets a marker pair of its own
C6_GroupInterior ==
    CleanCall =>
        LET toks == Toks(last.arg) IN
        \A e, x \in 1..Len(toks) :
            OneGroup(toks, e, x) =>
                /\ ~last.raised
                /\ last.ret = GroupOutput(toks, e, x,
                                          AsWrittenUnescaped(SubSeq(toks, e + 1, x - 1)))

\* a template with one group holding two fields, the first ordinary one not the first
\* field, was compiled
C6_Witness ==
    /\ CleanCall /\ ~last.raised
    /\ \E e, x \in 1..Len(Toks(last.arg)) :
          /\ OneGroup(Toks(last.arg), e, x)
          /\ x > e + 2

\* C7: to_color_format raises, and returns nothing, when an {enter} is met while a group
\* is open, when an {exit} is met while no group is open, and when an {exit} is met while
\* the open group has bound no field name
C7_MalformedGroupRaises ==
    CleanCall =>
        LET toks == Toks(last.arg) IN
        \A k \in 1..Len(toks) :
            ( \/ IsEnter(toks[k]) /\ GroupOpenAfter(toks, k - 1)
              \/ IsExit(toks[k]) /\ ~GroupOpenAfter(toks, k - 1)
              \/ IsExit(toks[k]) /\ GroupOpenAfter(toks, k - 1)
                                 /\ ~GroupBoundAfter(toks, k - 1) )
            => (last.raised /\ last.ret = <<>>)

\* an {exit} closed a group that held fields but no ordinary one, and the call raised
C7_Witness ==
    /\ CleanCall /\ last.raised
    /\ \E k \in 3..Len(Toks(last.arg)) :
          /\ IsExit(Toks(last.arg)[k])
          /\ IsEnter(Toks(last.arg)[k - 2])
          /\ GroupOpenAfter(Toks(last.arg), k - 1)
          /\ ~GroupBoundAfter(Toks(last.arg), k - 1)

\* the pieces of a template made of literal text and ordinary fields only
PlainPieces == { <<"a">>, <<LB, "name", RB>>, <<LB, "message", BANG, "r", COLON, ">5", RB>> }

IsPlain(ps) == \A k \in 1..Len(ps) : ps[k] \in PlainPieces

\* C8: on a template of literal text and ordinary fields,
\* strip_color(to_color_format(t)) = strip_color(t) = t
C8_RoundTrip ==
    (CleanCall /\ IsPlain(conv_in)) =>
        /\ ~last.raised
        /\ strip_color(last.ret) = [raised |-> FALSE, ret |-> last.arg]
        /\ strip_color(last.arg) = [raised |-> FALSE, ret |-> last.arg]

----------------------------------------------------------------------------
(* Properties of the Formatter                                             *)

Rendered == last.op = "format"

ColorMode == force_ansi \/ stream_supports_color = "True"

NoColorMode == ~force_ansi /\ stream_supports_color = "False"

\* C1: once construction succeeded and the capability flag is a boolean, format(record)
\* never fails with the missing-field error
C1_NoMissingField ==
    (Rendered /\ stream_supports_color # "None") => last.status # "MissingField"

\* what strip_color makes of the template the caller passed in attribute a of fmts
Derived(a) ==
    IF Truthy(arg_fmts[a]) THEN Some(strip_color(arg_fmts[a].v).ret) ELSE None

HasMarker(t) == \E i \in 1..Len(t) : t[i] \in {STX, ETX}

BackupEntry == LevelGetter(arg_backup.c, _levelmap(last.levelno))

\* C4 as stated: without color and without force_ansi, with a backup set from the caller,
\* the template selected is the backup set's (level value or backup default), and the
\* compiled color-mode template of the main set for a level the backup set has no entry for
C4_FallsBackToCompiled ==
    (Rendered /\ NoColorMode /\ ~arg_backup.none) =>
        last.selected = Or(BackupEntry, get(fmts, last.levelno))

\* C4 amended: ... and for a level the backup set has no entry for, it is the template
\* the caller passed in the main set for that level (level value or default) as it was
\* before compilation, not the compiled color-mode template
C4_FallsBackToOriginal ==
    (Rendered /\ NoColorMode /\ ~arg_backup.none) =>
        last.selected = Or(BackupEntry, get(arg_fmts, last.levelno))

\* a level the caller's backup set had no entry for was rendered from the original template
C4_Witness ==
    /\ Rendered /\ NoColorMode /\ ~arg_backup.none
    /\ ~Truthy(BackupEntry)
    /\ DOMAIN arg_backup.c = AttrSet /\ Truthy(arg_backup.c[FocusAttr])
    /\ last.status = "ok"
    /\ last.selected = get(arg_fmts, last.levelno)
    /\ last.selected # get(fmts, last.levelno)

\* the table a render of the record at hand builds
Table == _get_fmt_kwargs(Self, record).kwargs

IsEnterKey(k) == Len(k) > 1 /\ k[Len(k)] = STX
IsExitKey(k) == Len(k) > 1 /\ k[Len(k)] = ETX
Base(k) == SubSeq(k, 1, Len(k) - 1)

\* C9: in color mode the table holds, for every key, the value of the highest source
\* that has the key: the record, else the static defaults, else the palettes' markers
\* for the record's level, else the empty marker defaults
C9_Precedence ==
    (Rendered /\ ColorMode /\ stream_supports_color # "None") =>
        /\ DOMAIN Table = DOMAIN COLOR_FORMAT_DEFAULTS
                          \cup DOMAIN _format_defaults(DOMAIN defaults)
                          \cup { Append(n, STX) : n \in DOMAIN palettes }
                          \cup { Append(n, ETX) : n \in DOMAIN palettes }
                          \cup DOMAIN defaults \cup DOMAIN RecordDict(record)
        /\ \A k \in DOMAIN Table :
              Table[k] =
                IF k \in DOMAIN RecordDict(record) THEN RecordDict(record)[k]
                ELSE IF k \in DOMAIN defaults THEN defaults[k]
                ELSE IF IsEnterKey(k) /\ Base(k) \in DOMAIN palettes
                     THEN enter(palettes[Base(k)], record.levelno)
                ELSE IF IsExitKey(k) /\ Base(k) \in DOMAIN palettes
                     THEN exit(palettes[Base(k)], record.levelno)
                ELSE <<>>

\* a record was rendered in color mode where a record field collides with a static
\* default, a static default with a palette marker, and a non-empty palette marker with
\* an empty marker default
C9_Witness ==
    /\ Rendered /\ ColorMode /\ stream_supports_color # "None"
    /\ last.status = "ok"
    /\ <<"name">> \in DOMAIN defaults /\ <<"name">> \in DOMAIN RecordDict(record)
    /\ <<"name", STX>> \in DOMAIN defaults /\ <<"name">> \in DOMAIN palettes
    /\ <<"tag">> \in DOMAIN palettes
    /\ enter(palettes[<<"tag">>], record.levelno) # <<>>
    /\ Table[<<"tag", STX>>] # <<>>

\* C10: while stream_supports_color is unset, every selection and every render fails
\* with the configuration error, at every level, force_ansi or not
C10_UnsetFlagFails ==
    (phase = "ready" /\ stream_supports_color = "None") =>
        /\ \A levelno \in Levels : _get_fmt_str(Self, levelno).raised
        /\ Rendered => last.status = "ConfigError"

\* a render was tried on a Formatter with force_ansi set and the flag unset
C10_Witness ==
    /\ Rendered /\ stream_supports_color = "None" /\ force_ansi
    /\ last.status = "ConfigError"

----------------------------------------------------------------------------
(* Properties of _validate_fmt                                             *)

Validated == last.op = "_validate_fmt"

\* the field name a piece of a template carries, <<>> for literal text, for the escaped
\* brace and for {}
PieceName(p) ==
    IF Head(p) # LB \/ p = <<LB, LB>> THEN <<>>
    ELSE SubSeq(p, 2, (CHOOSE k \in 2..Len(p) :
                          /\ p[k] \in {BANG, COLON, RB}
                          /\ \A j \in 2..(k - 1) : p[j] \notin {BANG, COLON, RB}) - 1)

\* the distinct names of the named fields of a template given by its pieces
NamedFields(ps) == { PieceName(ps[k]) : k \in 1..Len(ps) } \ {<<>>}

\* one leading underscore removed
StripUnderscore(name) == IF Head(name) = US THEN Tail(name) ELSE name

\* the stripped names that are in neither VALID_FLAGS nor the extra keys
MissingNames(ps, extra_keys) ==
    { StripUnderscore(n) : n \in NamedFields(ps) } \ (VALID_FLAGS \cup extra_keys)

\* templates whose every field has a well-formed name, conversion and format spec
SyntacticallyValid(ps) ==
    \A k \in 1..Len(ps) : ps[k] \in (ValPieces \cup Pieces) \ {<<LB, "name", BANG, "x", RB>>}

\* C11: _validate_fmt accepts a syntactically valid template exactly when it has a named
\* field and every name, one leading underscore stripped, is in VALID_FLAGS or the extra
\* keys; it rejects a template without named fields, and rejects unknown names with an
\* error that lists exactly the missing names
C11_ValidateAccepts ==
    (Validated /\ SyntacticallyValid(conv_in)) =>
        /\ last.ok <=> (NamedFields(conv_in) # {} /\ MissingNames(conv_in, last.extra) = {})
        /\ NamedFields(conv_in) = {} => (~last.ok /\ last.error = "no fields")
        /\ (NamedFields(conv_in) # {} /\ MissingNames(conv_in, last.extra) # {}) =>
              /\ last.error = "Missing defaults"
              /\ last.missing = MissingNames(conv_in, last.extra)

\* a template with an escaped known name, an extra key and a name missing from both
\* was rejected with that name
C11_Witness ==
    /\ Validated /\ SyntacticallyValid(conv_in)
    /\ <<US, "name">> \in NamedFields(conv_in)
    /\ <<"tag">> \in NamedFields(conv_in) /\ last.extra = {<<"tag">>}
    /\ last.missing = {<<US, "name">>}

\* a template with escaped names only, all of them known, was accepted
C11_WitnessAccepted ==
    /\ Validated /\ last.ok
    /\ NamedFields(conv_in) = {<<US, "name">>, <<US, "tag">>}

----------------------------------------------------------------------------
(* Properties of LevelContainer                                            *)

Looked == last.op \in {"get", "getter"}

\* the attribute a lookup reads: the getter's own, or the one of the level asked for
LookedAttr ==
    IF last.op = "getter" THEN last.attr
    ELSE IF last.level.type = "int" THEN _levelmap(last.level.n)
    ELSE CASE last.level.s \in {"CRITICAL", "FATAL"} -> "_critical"
           [] last.level.s = "ERROR" -> "_error"
           [] last.level.s \in {"WARN", "WARNING"} -> "_warning"
           [] last.level.s = "INFO" -> "_info"
           [] last.level.s = "DEBUG" -> "_debug"

KnownLevel ==
    \/ last.op = "getter"
    \/ last.level.type = "int" /\ last.level.n \in {10, 20, 30, 40, 50}
    \/ last.level.type = "str" /\ last.level.s \in LevelNames

\* C12: a lookup returns the level's own value if it is not None, else the container
\* default if it is not None, else the per-call fallback if given, else None; a level
\* name gives what its number gives; an unknown level is an error
C12_LookupByPresence ==
    Looked =>
        IF ~KnownLevel THEN last.error # ""
        ELSE /\ last.error = ""
             /\ last.ret = IF arg_fmts[LookedAttr].some THEN arg_fmts[LookedAttr]
                           ELSE IF arg_fmts["_default"].some THEN arg_fmts["_default"]
                           ELSE IF last.default.given THEN last.default.val
                           ELSE None

----------------------------------------------------------------------------
(* Properties of Palette                                                   *)

\* C13: for every Palette and every level number, exit(level) is empty whenever
\* enter(level) is empty and is the reset sequence ESC[0m whenever enter(level) is not
C13_ExitFollowsEnter ==
    (last.op = "markers") =>
        /\ last.enter = <<>> => last.exit = <<>>
        /\ last.enter # <<>> => last.exit = <<ESC, "[", "0", "m">>
        /\ last.table[<<"name", STX>>] = last.enter
        /\ last.table[<<"name", ETX>>] = last.exit

\* a palette with a sequence of codes at one level and no color at another was asked
\* for the markers of the level with the codes
C13_Witness ==
    /\ last.op = "markers"
    /\ last.enter = <<ESC, "[", "1", "m", ESC, "[", "35", "m">>
    /\ last.exit = <<ESC, "[", "0", "m">>
    /\ \E l \in Levels : enter(palettes[<<"name">>], l) = <<>>

----------------------------------------------------------------------------
(* Properties of repeated renders                                          *)

EndsWith(text, suffix) ==
    /\ Len(text) >= Len(suffix)
    /\ SubSeq(text, Len(text) - Len(suffix) + 1, Len(text)) = suffix

\* the record at hand carries exception info, as given or as the text cached from it
CarriesException == record.exc_info.some \/ Truthy(record.exc_text)

\* format would call formatException on the record at hand
WouldFormatException == record.exc_info.some /\ ~Truthy(record.exc_text)

\* C14: two renders of a record that carries exception info append the same exception
\* text, and the text is produced from the exception info at most once: the second
\* render finds it cached on the record
C14_ExceptionTextOnce ==
    [][ (/\ Rendered /\ last.status = "ok" /\ CarriesException
         /\ Rendered' /\ last'.status = "ok")
        => /\ Truthy(record.exc_text)
           /\ ~WouldFormatException
           /\ record'.exc_text = record.exc_text
           /\ EndsWith(last.text, <<NL>> \o record.exc_text.v)
           /\ EndsWith(last'.text, <<NL>> \o record.exc_text.v) ]_vars

\* a record with exception info was rendered twice in color mode with a palette for
\* the exception text
C14_Witness ==
    /\ Rendered /\ last.renders = 2 /\ last.status = "ok"
    /\ Truthy(record.exc_text) /\ ~record.exc_info.some
    /\ <<"exc_text">> \in DOMAIN palettes /\ ColorMode
    /\ record.exc_text.v # <<"Traceback">>
    /\ EndsWith(last.text, <<NL>> \o record.exc_text.v)

----------------------------------------------------------------------------
(* Properties of the color-capability flag                                 *)

\* C15: stream_supports_color makes at most one transition, from None to a boolean:
\* setup sets it only when it is None, to the probe's result or to False for a handler
\* without a stream, never changes a value that is set, and no render writes it
C15_FlagSetOnce ==
    [][ /\ stream_supports_color # "None" => stream_supports_color' = stream_supports_color
        /\ stream_supports_color' # stream_supports_color =>
              /\ last'.op = "setup"
              /\ stream_supports_color' =
                    IF last'.has_stream /\ last'.probe THEN "True" ELSE "False"
        /\ (last'.op = "setup" /\ stream_supports_color = "None") =>
              stream_supports_color' # "None"
        /\ last'.op = "format" => stream_supports_color' = stream_supports_color ]_vars

\* the Formatter was attached to a second handler whose stream probes differently from
\* the flag it already had
C15_Witness ==
    /\ last.op = "setup" /\ last.was = "False"
    /\ last.has_stream /\ last.probe
    /\ stream_supports_color = "False"

----------------------------------------------------------------------------
(* Properties of compiled templates                                        *)

\* where the markers of a compiled template end: STX and ETX stand only in markers
MarkerEnds(t) == { i \in 1..Len(t) : t[i] \in {STX, ETX} }

\* the name of the marker that ends at i: what stands between its brace and i
MarkerName(t, i) ==
    SubSeq(t, (CHOOSE j \in 1..(i - 1) : t[j] = LB /\ \A k \in (j + 1)..(i - 1) : t[k] # LB) + 1,
           i - 1)

\* the marker before the one that ends at i
PrevMarker(t, i) ==
    CHOOSE j \in MarkerEnds(t) : j < i /\ \A k \in MarkerEnds(t) : k < i => k <= j

\* markers come in pairs: an enter-marker, then the exit-marker of the same name
WellPaired(t) ==
    /\ Cardinality(MarkerEnds(t)) % 2 = 0
    /\ \A i \in MarkerEnds(t) :
          IF Cardinality({ j \in MarkerEnds(t) : j < i }) % 2 = 0 THEN t[i] = STX
          ELSE /\ t[i] = ETX
               /\ MarkerName(t, i) = MarkerName(t, PrevMarker(t, i))

\* C16: every string to_color_format returns is well-paired: each enter-marker is
\* followed by the exit-marker of the same name before any other enter-marker, and no
\* exit-marker stands without an enter-marker before it
C16_WellPaired ==
    (last.op = "to_color_format" /\ ~last.raised) => WellPaired(last.ret)

\* the returned string is well-paired when every group of the template is closed and
\* the converter is new
C16_WellPairedWhenClosed ==
    (CleanCall /\ ~last.raised /\ ~GroupOpenAfter(Toks(last.arg), Len(Toks(last.arg))))
        => WellPaired(last.ret)

----------------------------------------------------------------------------
(* Properties of the converter's state                                     *)

\* C17: after every call of to_color_format, returned or raised, the instance has no
\* pending values and no open group, and the call gave what it gives on a new instance
C17_NoStateAcrossCalls ==
    (last.op = "to_color_format") =>
        /\ conv_values = <<>>
        /\ conv_awaiting = 0
        /\ last.raised = to_color_format(NewConverter, last.arg).raised
        /\ last.ret = to_color_format(NewConverter, last.arg).ret

\* the state is reset by every call that returns
C17_ResetOnReturn ==
    (last.op = "to_color_format" /\ ~last.raised) => (conv_values = <<>> /\ conv_awaiting = 0)

----------------------------------------------------------------------------
(* Properties of the timestamp                                             *)

\* C18: across the renders of a record the time formatter is invoked at most once: a
\* render computes asctime only if the record does not carry it yet
C18_TimeComputedOnce == record.time_calls <= 1

\* a render of a template with the time field stores asctime on the record
C18_TimeStored ==
    (Rendered /\ last.selected.some /\ usesTime(last.selected.v)) =>
        (record.asctime.some /\ record.time_calls = last.renders)

----------------------------------------------------------------------------
(* What a render changes                                                   *)

\* a step that is one call of format: last.before is the record as the call found it
RenderStep ==
    /\ last'.op = "format"
    /\ last.op = "format" => last'.renders = last.renders + 1

\* the Formatter and the containers of its caller are the same after the step
FormatterUnchanged ==
    /\ Self' = Self
    /\ phase' = phase
    /\ arg_fmts' = arg_fmts
    /\ arg_backup' = arg_backup

\* C19 as stated: a render changes nothing except the formatted timestamp and the
\* exception text; the record's message, exception info, level and stack and all
\* Formatter state are the same after format(record) as before, whether it succeeds
\* or fails
C19_OnlyTwoCaches ==
    [][RenderStep =>
          /\ FormatterUnchanged
          /\ record'.levelno = last'.before.levelno
          /\ record'.stack_info = last'.before.stack_info
          /\ record'.message = last'.before.message
          /\ record'.exc_info = last'.before.exc_info]_vars

\* C19: a render changes nothing except the record's message, which it stores, the
\* formatted timestamp, the exception text, and the exception info, which it clears
\* when it stores the exception text; the record's level and stack and all Formatter
\* state are the same after format(record) as before, whether it succeeds or fails
C19_RenderFrame ==
    [][RenderStep =>
          /\ FormatterUnchanged
          /\ record'.levelno = last'.before.levelno
          /\ record'.stack_info = last'.before.stack_info
          /\ record'.message = Some(<<"started">>)
          /\ record'.exc_info = IF record'.exc_text # last'.before.exc_text
                                THEN None
                                ELSE last'.before.exc_info]_vars

\* a render found exception info on the record and left the text instead
C19_Witness ==
    /\ Rendered
    /\ last.status = "ok"
    /\ last.before.exc_info.some
    /\ ~last.before.message.some
    /\ record.exc_text.some
    /\ ~record.exc_info.some

\* a render failed and had stored the message by then
C19_WitnessFailed ==
    /\ Rendered
    /\ last.status # "ok"
    /\ ~last.before.message.some
    /\ record.message.some

----------------------------------------------------------------------------
(* What construction does to the containers of the caller                  *)

Constructed == phase = "ready"

\* the slot holds to_color_format of the value the caller had put there
CompiledInPlace(a) ==
    fmts[a] = IF arg_fmts[a].some
              THEN Some(to_color_format(NewConverter, arg_fmts[a].v).ret)
              ELSE None

\* the backup slot of a Formatter that was given no backup container
StrippedFromOriginal(a) ==
    backup_fmts.c[a] = IF Truthy(arg_fmts[a])
                       THEN Some(strip_color(arg_fmts[a].v).ret)
                       ELSE None

\* the backup slot of a supplied backup container
CopiedFromOriginal(a) ==
    backup_fmts.c[a] = IF a # "_default" /\ ~Truthy(LevelGetter(arg_backup.c, a))
                       THEN LevelGetter(arg_fmts, a)
                       ELSE arg_backup.c[a]

\* two outcomes of __init__ that differ
InitDiffers(x, y) == x.ok # y.ok \/ x.fmts # y.fmts \/ x.backup_fmts # y.backup_fmts

\* a second Formatter from the container the first one was given, against one from the
\* templates the caller wrote
SecondDiffers ==
    InitDiffers(FormatterInit(fmts, defaults, NoContainer),
                FormatterInit(arg_fmts, defaults, NoContainer))

\* C20: after a successful __init__ every slot of the caller's fmts container that is
\* not None holds to_color_format of its original value, the backup templates come from
\* the original templates (strip_color of them, or a per-level copy into the supplied
\* backup container), and a second Formatter constructed from that fmts container,
\* whenever construction changed it, does not come out as one constructed from the
\* original templates
C20_RewritesInPlace ==
    Constructed =>
        /\ \A a \in AttrSet : CompiledInPlace(a)
        /\ \A a \in AttrSet : IF arg_backup.none THEN StrippedFromOriginal(a)
                              ELSE CopiedFromOriginal(a)
        /\ ~backup_fmts.none
        /\ fmts # arg_fmts => SecondDiffers

\* a Formatter whose construction changed the caller's fmts and filled a level of the
\* supplied backup container with an original template
C20_Witness ==
    /\ Constructed
    /\ fmts # arg_fmts
    /\ ~arg_backup.none
    /\ backup_fmts # arg_backup
    /\ \E a \in AttrSet \ {"_default"} : backup_fmts.c[a] = arg_fmts[a] /\ fmts[a] # arg_fmts[a]

\* a Formatter that was given no backup container and templates with fields
C20_WitnessStripped ==
    /\ Constructed
    /\ arg_backup.none
    /\ \E a \in AttrSet : fmts[a] # arg_fmts[a] /\ Truthy(backup_fmts.c[a])

\* a second construction from the rewritten container fails where the first succeeded
C20_WitnessSecondFails ==
    /\ Constructed
    /\ ~FormatterInit(fmts, defaults, NoContainer).ok

----------------------------------------------------------------------------
(* Coverage of the levels after construction                               *)

\* C21: after a successful construction fmts.get(level) and backup_fmts.get(level) both
\* return a template (never None) for each of the five levels
C21_EveryLevelCovered ==
    Constructed =>
        \A level \in Levels : /\ get(fmts, level).some
                              /\ get(backup_fmts.c, level).some

\* what construction does ensure: each level of fmts has a value that is not None, its
\* own or the default
C21_EveryLevelPresent ==
    Constructed =>
        \A a \in AttrSet \ {"_default"} : fmts[a].some \/ fmts["_default"].some

====
